---- MODULE Spec2Model ----
(***************************************************************************)
(* Model of depends/scripts/resolve_utils.py (class Dependency and the     *)
(* module function resolve) and of the batch loop of                       *)
(* depends/scripts/resolve.py.                                             *)
(*                                                                         *)
(* The file system is the set of paths that exist.  Paths and file names   *)
(* are strings, joined and tested for suffixes the way os.path.join and    *)
(* str.endswith do.  A Python optional value is a set with at most one     *)
(* element: {} is None, {v} is the value v.                                *)
(***************************************************************************)
EXTENDS FiniteSets, Integers, Sequences, TLC

\* Longest batch of descriptors handed to the loop of resolve.py.
MaxBatch == 2

(***************************************************************************)
(* Strings and paths                                                       *)
(***************************************************************************)
\* str.startswith(prefix)
StartsWith(s, prefix) ==
    /\ Len(s) >= Len(prefix)
    /\ SubSeq(s, 1, Len(prefix)) = prefix

\* str.endswith(suffix)
EndsWith(s, suffix) ==
    /\ Len(s) >= Len(suffix)
    /\ SubSeq(s, Len(s) - Len(suffix) + 1, Len(s)) = suffix

\* str.endswith(tuple of suffixes)
EndsWithAny(s, suffixes) == \E x \in suffixes : EndsWith(s, x)

\* os.path.join(a, b): an absolute b discards a.
Join(a, b) ==
    IF StartsWith(b, "/") THEN b
    ELSE IF a = "" \/ EndsWith(a, "/") THEN a \o b
    ELSE a \o "/" \o b

RECURSIVE LastSlash(_, _)
\* Position of the last "/" of p at or before position i, 0 when there is none.
LastSlash(p, i) ==
    IF i = 0 THEN 0
    ELSE IF SubSeq(p, i, i) = "/" THEN i
    ELSE LastSlash(p, i - 1)

\* os.path.dirname(p)
Dirname(p) ==
    LET i == LastSlash(p, Len(p))
    IN  IF i <= 1 THEN SubSeq(p, 1, i) ELSE SubSeq(p, 1, i - 1)

RECURSIVE Parents(_)
\* p and every directory above it: what os.makedirs(p, exist_ok=True) leaves existing.
Parents(p) ==
    IF p = "" \/ p = "/" THEN {}
    ELSE {p} \cup Parents(Dirname(p))

\* os.makedirs(p, exist_ok=True) on the file system f
makedirs(f, p) == f \cup Parents(p)

\* A directory that exists and holds at least one entry.
NonEmptyDir(f, d) == \E p \in f : p # d /\ StartsWith(p, d \o "/")

(***************************************************************************)
(* Optional values                                                         *)
(***************************************************************************)
None == {}
Some(v) == {v}
Val(o) == CHOOSE v \in o : TRUE
\* Truth value of an optional string: None and "" are false.
TruthyStr(o) == o # None /\ Val(o) # ""
\* Truth value of an optional list: None and [] are false.
TruthyList(o) == o # None /\ Val(o) # <<>>
\* kwargs.get(k): the keyword argument k of the call, None when it was not passed.
Arg(kw, k) == IF k \in DOMAIN kw THEN Some(kw[k]) ELSE None

(***************************************************************************)
(* Module globals of resolve_utils.py                                      *)
(***************************************************************************)
\* __file__ of resolve_utils.py
ScriptFile == "/p/depends/scripts/resolve_utils.py"
g_script_path == Dirname(ScriptFile)
g_project_path == Dirname(Dirname(g_script_path))
g_pkg_path == Join(g_project_path, "depends/pkgs")
g_resolved_path == Join(g_project_path, "depends/resolved")
g_build_path == Join(g_project_path, "depends/build")

(***************************************************************************)
(* Dependency.__init__                                                     *)
(***************************************************************************)
Dependency(kw) ==
    [ pkg_name          |-> kw.pkg_name,
      version           |-> Arg(kw, "version"),
      pkg_file          |-> Arg(kw, "pkg_file"),
      build_command     |-> kw.build_command,
      check_files       |-> Arg(kw, "check_files"),
      http_download_url |-> Arg(kw, "http_download_url"),
      git_source_url    |-> Arg(kw, "git_source_url"),
      src_dir           |-> Join(g_build_path, kw.pkg_name),
      dest_dir          |-> Join(g_resolved_path, kw.pkg_name),
      pkg_path          |-> IF TruthyStr(Arg(kw, "pkg_file"))
                            THEN Some(Join(g_pkg_path, kw.pkg_file))
                            ELSE None ]

(***************************************************************************)
(* Inputs: the keyword dictionaries passed to resolve, the inherited     *)
(* process environments and the package caches found at start.            *)
(***************************************************************************)
PkgNames == {"a", "b"}
PkgFiles == {"a.tgz", "a.rar"}
Urls == {"http://h/a"}
GitUrls == {"git://h/a"}
CheckLists == {<<>>, <<"lib/x.a", "inc/x.h">>}
BuildCommands == {"make install"}
\* Paths, relative to DST_PATH, that a build command may install.
BuildOutputs == {"lib/x.a", "inc/x.h"}

\* Every optional value over S.
Opt(S) == {None} \cup {Some(v) : v \in S}

\* The dictionary of one entry of libs: optional keys are present only when given.
Item(name, cmd, pf, url, git, cf) ==
    LET opt(k) == CASE k = "pkg_file" -> pf
                    [] k = "http_download_url" -> url
                    [] k = "git_source_url" -> git
                    [] k = "check_files" -> cf
        keys == {"pkg_name", "build_command"} \cup
                {k \in {"pkg_file", "http_download_url", "git_source_url", "check_files"} :
                    opt(k) # None}
    IN  [k \in keys |-> CASE k = "pkg_name" -> name
                          [] k = "build_command" -> cmd
                          [] OTHER -> Val(opt(k))]

Items ==
    { Item(name, cmd, pf, url, git, cf) :
        name \in PkgNames, cmd \in BuildCommands, pf \in Opt(PkgFiles),
        url \in Opt(Urls), git \in Opt(GitUrls), cf \in Opt(CheckLists) }

EnvNames == {"DST_PATH", "SRC_FILE_PATH", "PKG_NAME", "RESOLVED_PATH", "PATH"}
\* Every environment that defines a subset of EnvNames.
AllEnvirons == UNION { [D -> {"inherited"}] : D \in SUBSET EnvNames }
Environs == { [PATH |-> "inherited"] }

\* The archives of S, as paths in the package cache.
CachePaths(S) == { Join(g_pkg_path, f) : f \in S }
Caches == SUBSET CachePaths(PkgFiles)

(***************************************************************************)
(* State                                                                   *)
(***************************************************************************)
VARIABLES
    environ,    \* os.environ of the process
    fs,         \* the paths that exist
    fs0,        \* the paths that existed when this resolve() was called
    n,          \* number of entries of libs the loop has taken
    dep,        \* the Dependency being resolved (self)
    pc,         \* position in resolve.py / Dependency.resolve
    path,       \* the acquisition branch this resolve() entered: none, git or archive
    steps,      \* <<method, returned value>> of every method this resolve() called
    ops,        \* the external operations this resolve() performed
    outcome,    \* how this resolve() left its try block
    decomp,     \* the mode _uncompress opened the archive with
    buildEnv,   \* env given to the build command by this resolve(), None before
    buildCwd,   \* cwd given to the build command by this resolve(), None before
    log,        \* the bracket lines printed so far
    results,    \* name and outcome of every resolve() that has finished
    prevSame,   \* outcome of the previous resolve() when it was of an equal descriptor
    status      \* exit status of the script, None while it runs

vars == <<environ, fs, fs0, n, dep, pc, path, steps, ops, outcome, decomp, buildEnv, buildCwd,
          log, results, prevSame, status>>

Outcomes == {"SKIPPED", "ACQUIRE_FAILED", "BUILD_FAILED", "DONE", "RAISED"}

NoDep == [pkg_name |-> ""]

InitWith(environs, caches) ==
    /\ environ \in environs
    /\ fs \in { makedirs(c, g_script_path) : c \in caches }
    /\ fs0 = fs
    /\ n = 0
    /\ dep = NoDep
    /\ pc = "loop"
    /\ path = "none"
    /\ steps = <<>>
    /\ ops = <<>>
    /\ outcome = "RUNNING"
    /\ decomp = "none"
    /\ buildEnv = None
    /\ buildCwd = None
    /\ log = <<>>
    /\ results = <<>>
    /\ prevSame = "NONE"
    /\ status = None

Init == InitWith(Environs, Caches)

(***************************************************************************)
(* Methods of Dependency, as functions of self and the file system         *)
(***************************************************************************)
\* _can_skip testing each check file as given, without joining it to dest_dir.
can_skip_unjoined(self, f) ==
    IF ~TruthyList(self.check_files) THEN FALSE
    ELSE IF self.dest_dir \notin f THEN FALSE
    ELSE \A i \in 1..Len(Val(self.check_files)) : Val(self.check_files)[i] \in f

\* _can_skip returning True as soon as one check file exists.
can_skip_any(self, f) ==
    IF ~TruthyList(self.check_files) THEN FALSE
    ELSE IF self.dest_dir \notin f THEN FALSE
    ELSE \E i \in 1..Len(Val(self.check_files)) :
            Join(self.dest_dir, Val(self.check_files)[i]) \in f

\* _can_skip looking at the destination directory only.
can_skip_dir_only(self, f) ==
    IF ~TruthyList(self.check_files) THEN FALSE
    ELSE self.dest_dir \in f

\* Dependency._can_skip: every check file exists under an existing dest_dir.
can_skip(self, f) ==
    IF ~TruthyList(self.check_files) THEN FALSE
    ELSE IF self.dest_dir \notin f THEN FALSE
    ELSE \A i \in 1..Len(Val(self.check_files)) :
            Join(self.dest_dir, Val(self.check_files)[i]) \in f

\* The suffix chain without the short bzip2 suffix.
uncompress_mode_no_tbz2(p) ==
    IF EndsWithAny(p, {".tar.gz", ".tgz"}) THEN "r:gz"
    ELSE IF EndsWith(p, ".tar.xz") THEN "r:xz"
    ELSE IF EndsWith(p, ".zip") THEN "zip"
    ELSE IF EndsWith(p, ".tar.bz2") THEN "r:bz2"
    ELSE "unsupported"

\* The branch of the suffix chain of Dependency._uncompress taken for path p.
uncompress_mode(p) ==
    IF EndsWithAny(p, {".tar.gz", ".tgz"}) THEN "r:gz"
    ELSE IF EndsWith(p, ".tar.xz") THEN "r:xz"
    ELSE IF EndsWith(p, ".zip") THEN "zip"
    ELSE IF EndsWithAny(p, {".tar.bz2", ".tbz2"}) THEN "r:bz2"
    ELSE "unsupported"

\* A merge in which the entries of e win: dict.setdefault for each entry of d.
update_setdefault(e, d) ==
    [k \in DOMAIN e \cup DOMAIN d |-> IF k \in DOMAIN e THEN e[k] ELSE d[k]]

\* dict.update: the entries of d override those of e.
update(e, d) ==
    [k \in DOMAIN e \cup DOMAIN d |-> IF k \in DOMAIN d THEN d[k] ELSE e[k]]

\* The env Dependency._build passes to the build command.
build_env(self, e) ==
    update(e, [ DST_PATH      |-> self.dest_dir,
                SRC_FILE_PATH |-> self.src_dir,
                PKG_NAME      |-> self.pkg_name,
                RESOLVED_PATH |-> g_resolved_path ])

\* The tree an extraction or a clone leaves in the source directory.
SourceTree(self) == {self.src_dir, Join(self.src_dir, "src")}

\* The files a build command leaves when it installs the outputs of S.
Installed(self, S) == UNION { Parents(Join(self.dest_dir, o)) : o \in S }

(***************************************************************************)
(* Control flow of Dependency.resolve: where each test of its try block    *)
(* goes next.                                                              *)
(***************************************************************************)
\* resolve() calling _can_skip without returning on True.
after_can_skip_noreturn(r) == "acquire"

\* if self._can_skip(): return
after_can_skip(r) == IF r THEN "finally" ELSE "acquire"

\* resolve() taking the archive branch whenever an archive is named.
acquire_branch_archive_first(self, f) ==
    IF self.pkg_path # None
    THEN (IF Val(self.pkg_path) \notin f THEN "download" ELSE "uncompress")
    ELSE IF TruthyStr(self.git_source_url) THEN "git_clone"
    ELSE "raise"

\* The archive branch downloading whenever a URL is configured.
acquire_branch_url_first(self, f) ==
    IF TruthyStr(self.git_source_url) THEN "git_clone"
    ELSE IF self.pkg_path = None THEN "raise"
    ELSE IF Val(self.pkg_path) \notin f \/ TruthyStr(self.http_download_url) THEN "download"
    ELSE "uncompress"

\* if self.git_source_url: ... else: if not os.path.exists(self.pkg_path): ...
\* os.path.exists(None) raises TypeError, which nothing in resolve() catches.
acquire_branch(self, f) ==
    IF TruthyStr(self.git_source_url) THEN "git_clone"
    ELSE IF self.pkg_path = None THEN "raise"
    ELSE IF Val(self.pkg_path) \notin f THEN "download"
    ELSE "uncompress"

\* resolve() building whatever _git_clone returns.
after_git_clone_ignored(r) == "build"

\* if not self._git_clone(): return
after_git_clone(r) == IF r THEN "build" ELSE "finally"

\* _download reporting a failure when no URL is configured.
download_no_url_fails == FALSE

\* _download: if not self.http_download_url: return True
download_no_url == TRUE

\* resolve() calling _download again after it failed.
after_download_retry(r) == IF r THEN "uncompress" ELSE "download"

\* if not self._download(): return
after_download(r) == IF r THEN "uncompress" ELSE "finally"

\* resolve() ignoring the value _uncompress returns.
after_uncompress_ignored(r) == "build"

\* if not self._uncompress(): return
after_uncompress(r) == IF r THEN "build" ELSE "finally"

\* The closing line printed after the try block instead of in a finally clause.
finally_log_unguarded(l, self, oc) ==
    IF oc = "RAISED" THEN l ELSE Append(l, <<"Finished", self.pkg_name>>)

\* finally: print(Finished resolving ...)
finally_log(l, self, oc) == Append(l, <<"Finished", self.pkg_name>>)

\* A loop that goes on to its next entry while a build command is still running.
at_loop_unawaited == pc \in {"loop", "build"}

\* resolve() ending with: return self._build()
resolve_return_build(st) ==
    IF st # <<>> /\ st[Len(st)][1] = "build" THEN Some(st[Len(st)][2]) ELSE None

\* The value Dependency.resolve returns after the steps st: every return of it
\* is bare and the value of self._build() is dropped.
resolve_return(st) == None

\* The exit status of resolve.py when its loop has ended: the script falls off
\* its end, whatever the results res were.
script_exit(res) == 0

\* The exit status of a Python script ended by an uncaught exception.
UncaughtExit == 1

\* _uncompress making the destination directory instead.
extract_dir_dest(self) == self.dest_dir

\* os.makedirs(self.src_dir, exist_ok=True) of _uncompress: the directory made.
extract_dir(self) == self.src_dir

\* The for statement of resolve.py is ready to take its next entry.
at_loop == pc = "loop"

(***************************************************************************)
(* resolve.py: the loop over libs.  resolve_utils.resolve constructs the   *)
(* Dependency and Dependency.resolve prints its opening line.              *)
(***************************************************************************)
CallFrom(items) ==
    /\ at_loop
    /\ n < MaxBatch
    /\ \E item \in items :
        /\ dep' = Dependency(item)
        /\ prevSame' = IF n > 0 /\ Dependency(item) = dep THEN outcome ELSE "NONE"
        /\ log' = Append(log, <<"Resolving", item.pkg_name>>)
    /\ n' = n + 1
    /\ pc' = "can_skip"
    /\ path' = "none"
    /\ fs0' = fs
    /\ steps' = <<>>
    /\ ops' = <<>>
    /\ outcome' = "RUNNING"
    /\ decomp' = "none"
    /\ buildEnv' = None
    /\ buildCwd' = None
    /\ UNCHANGED <<environ, fs, results, status>>

Call == CallFrom(Items)

\* The loop has no entry left: the script ends.
Exit ==
    /\ pc = "loop"
    /\ pc' = "exit"
    /\ status' = Some(script_exit(results))
    /\ UNCHANGED <<environ, fs, fs0, n, dep, path, steps, ops, outcome, decomp,
                   buildEnv, buildCwd, log, results, prevSame>>

(***************************************************************************)
(* Dependency.resolve, one action per step of its try block                *)
(***************************************************************************)
CanSkip ==
    /\ pc = "can_skip"
    /\ steps' = Append(steps, <<"can_skip", can_skip(dep, fs)>>)
    /\ pc' = after_can_skip(can_skip(dep, fs))
    /\ outcome' = IF pc' = "finally" THEN "SKIPPED" ELSE outcome
    /\ UNCHANGED <<environ, fs, fs0, n, dep, path, ops, decomp, buildEnv, buildCwd,
                   log, results, prevSame, status>>

Acquire ==
    /\ pc = "acquire"
    /\ IF acquire_branch(dep, fs) = "raise"
       THEN outcome' = "RAISED" /\ pc' = "finally"
       ELSE outcome' = outcome /\ pc' = acquire_branch(dep, fs)
    /\ path' = IF acquire_branch(dep, fs) = "git_clone" THEN "git" ELSE "archive"
    /\ UNCHANGED <<environ, fs, fs0, n, dep, steps, ops, decomp, buildEnv, buildCwd,
                   log, results, prevSame, status>>

\* Dependency._git_clone.  git clone exits non-zero on a target directory that
\* exists and is not empty; otherwise either exit is possible.
GitClone ==
    /\ pc = "git_clone"
    /\ IF ~TruthyStr(dep.git_source_url)
       THEN /\ steps' = Append(steps, <<"git_clone", TRUE>>)
            /\ ops' = ops
            /\ fs' = fs
            /\ pc' = after_git_clone(TRUE)
       ELSE \E ok \in BOOLEAN :
            /\ ok => ~NonEmptyDir(fs, dep.src_dir)
            /\ steps' = Append(steps, <<"git_clone", ok>>)
            /\ ops' = Append(ops, "clone")
            /\ fs' = makedirs(fs, g_build_path) \cup (IF ok THEN SourceTree(dep) ELSE {})
            /\ pc' = after_git_clone(ok)
    /\ outcome' = IF pc' = "finally" THEN "ACQUIRE_FAILED" ELSE outcome
    /\ UNCHANGED <<environ, fs0, n, dep, path, decomp, buildEnv, buildCwd, log,
                   results, prevSame, status>>

\* Dependency._download.  A failed urlretrieve may leave a partial file behind.
Download ==
    /\ pc = "download"
    /\ IF ~TruthyStr(dep.http_download_url)
       THEN /\ steps' = Append(steps, <<"download", download_no_url>>)
            /\ ops' = ops
            /\ fs' = fs
            /\ pc' = after_download(download_no_url)
       ELSE \E ok \in BOOLEAN, written \in BOOLEAN :
            /\ ok => written
            /\ steps' = Append(steps, <<"download", ok>>)
            /\ ops' = Append(ops, "urlretrieve")
            /\ fs' = makedirs(fs, g_pkg_path) \cup (IF written THEN dep.pkg_path ELSE {})
            /\ pc' = after_download(ok)
    /\ outcome' = IF pc' = "finally" THEN "ACQUIRE_FAILED" ELSE outcome
    /\ UNCHANGED <<environ, fs0, n, dep, path, decomp, buildEnv, buildCwd, log,
                   results, prevSame, status>>

\* Dependency._uncompress.  Opening or extracting a supported archive may fail
\* (corrupt archive), which the except clause turns into False.
Uncompress ==
    /\ pc = "uncompress"
    /\ IF Val(dep.pkg_path) \notin fs
       THEN /\ steps' = Append(steps, <<"uncompress", FALSE>>)
            /\ ops' = ops
            /\ fs' = fs
            /\ decomp' = decomp
            /\ pc' = after_uncompress(FALSE)
       ELSE IF uncompress_mode(Val(dep.pkg_path)) = "unsupported"
       THEN /\ steps' = Append(steps, <<"uncompress", FALSE>>)
            /\ ops' = ops
            /\ fs' = makedirs(fs, extract_dir(dep))
            /\ decomp' = decomp
            /\ pc' = after_uncompress(FALSE)
       ELSE \E ok \in BOOLEAN :
            /\ steps' = Append(steps, <<"uncompress", ok>>)
            /\ ops' = Append(ops, "extract")
            /\ fs' = makedirs(fs, extract_dir(dep)) \cup (IF ok THEN SourceTree(dep) ELSE {})
            /\ decomp' = uncompress_mode(Val(dep.pkg_path))
            /\ pc' = after_uncompress(ok)
    /\ outcome' = IF pc' = "finally" THEN "ACQUIRE_FAILED" ELSE outcome
    /\ UNCHANGED <<environ, fs0, n, dep, path, buildEnv, buildCwd, log, results,
                   prevSame, status>>

\* Dependency._build.  The command installs any of BuildOutputs under dest_dir
\* and exits zero or non-zero; subprocess.run raises FileNotFoundError, which
\* _build does not catch, when cwd does not exist.
Build ==
    /\ pc = "build"
    /\ IF dep.src_dir \notin fs
       THEN /\ steps' = Append(steps, <<"build", FALSE>>)
            /\ ops' = Append(ops, "makedirs_dest")
            /\ fs' = makedirs(fs, dep.dest_dir)
            /\ buildEnv' = buildEnv
            /\ buildCwd' = buildCwd
            /\ outcome' = "RAISED"
       ELSE \E S \in SUBSET BuildOutputs, ok \in BOOLEAN :
            /\ steps' = Append(steps, <<"build", ok>>)
            /\ ops' = ops \o <<"makedirs_dest", "command">>
            /\ fs' = makedirs(fs, dep.dest_dir) \cup Installed(dep, S)
            /\ buildEnv' = Some(build_env(dep, environ))
            /\ buildCwd' = Some(dep.src_dir)
            /\ outcome' = IF ok THEN "DONE" ELSE "BUILD_FAILED"
    /\ pc' = "finally"
    /\ UNCHANGED <<environ, fs0, n, dep, path, decomp, log, results, prevSame, status>>

\* finally: print the closing line; then resolve() returns to the loop, or the
\* exception goes on through resolve() and the loop and ends the script.
Finally ==
    /\ pc = "finally"
    /\ log' = finally_log(log, dep, outcome)
    /\ results' = Append(results, [pkg_name |-> dep.pkg_name, outcome |-> outcome,
                                    ret |-> resolve_return(steps)])
    /\ pc' = IF outcome = "RAISED" THEN "raised" ELSE "loop"
    /\ status' = IF outcome = "RAISED" THEN Some(UncaughtExit) ELSE status
    /\ UNCHANGED <<environ, fs, fs0, n, dep, path, steps, ops, outcome, decomp,
                   buildEnv, buildCwd, prevSame>>

Next ==
    \/ Call
    \/ Exit
    \/ CanSkip
    \/ Acquire
    \/ GitClone
    \/ Download
    \/ Uncompress
    \/ Build
    \/ Finally

Spec == Init /\ [][Next]_vars

(***************************************************************************)
(* Specification for the archive formats: one package name, a wide range   *)
(* of archive file names.                                                  *)
(***************************************************************************)
FmtFiles ==
    {"x.tar.gz", "x.tgz", "x.tar.xz", "x.tar.bz2", "x.tbz2", "x.zip",
     "x.rar", "x.tar", "x.gz", "x.TGZ", "xzip", ".zip", "x.zip.part"}

FmtItems ==
    { Item("a", cmd, Some(pf), url, git, None) :
        cmd \in BuildCommands, pf \in FmtFiles, url \in Opt(Urls), git \in Opt(GitUrls) }

FmtCaches == {{}, CachePaths(FmtFiles)}

InitFmt == InitWith(Environs, FmtCaches)

CallFmt == CallFrom(FmtItems)

NextFmt ==
    \/ CallFmt
    \/ Exit
    \/ CanSkip
    \/ Acquire
    \/ GitClone
    \/ Download
    \/ Uncompress
    \/ Build
    \/ Finally

SpecFmt == InitFmt /\ [][NextFmt]_vars

(***************************************************************************)
(* Specification for the build environment: every inherited environment    *)
(* over EnvNames.                                                          *)
(***************************************************************************)
EnvItems ==
    { Item(name, cmd, Some("a.tgz"), Some(url), git, None) :
        name \in PkgNames, cmd \in BuildCommands, url \in Urls, git \in Opt(GitUrls) }

InitEnv == InitWith(AllEnvirons, {{}, CachePaths({"a.tgz"})})

CallEnv == CallFrom(EnvItems)

NextEnv ==
    \/ CallEnv
    \/ Exit
    \/ CanSkip
    \/ Acquire
    \/ GitClone
    \/ Download
    \/ Uncompress
    \/ Build
    \/ Finally

SpecEnv == InitEnv /\ [][NextEnv]_vars

(***************************************************************************)
(* Vocabulary of the properties                                            *)
(***************************************************************************)
TypeOK ==
    /\ n \in 0..MaxBatch
    /\ pc \in {"loop", "can_skip", "acquire", "git_clone", "download", "uncompress",
               "build", "finally", "raised", "exit"}
    /\ outcome \in Outcomes \cup {"RUNNING"}
    /\ Len(results) <= n

\* A resolve() is in progress: it has printed its opening line, not its closing one.
Running == pc \in {"can_skip", "acquire", "git_clone", "download", "uncompress",
                   "build", "finally"}

\* The latest resolve() has printed its closing line.
Ended == n > 0 /\ pc \in {"loop", "exit", "raised"}

\* The methods this resolve() has called, in order.
Called(m) == \E i \in 1..Len(steps) : steps[i][1] = m

\* The number of calls of method m by this resolve().
Calls(m) == Cardinality({i \in 1..Len(steps) : steps[i][1] = m})

\* This resolve() performed the external operation o.
Did(o) == \E i \in 1..Len(ops) : ops[i] = o

\* The step <<m, r>>: this resolve() called method m and it returned r.
Returned(m, r) == \E i \in 1..Len(steps) : steps[i] = <<m, r>>

\* An optional string that is given and not empty.
IsSet(o) == o # None /\ Val(o) # ""

\* The skip condition in the words of the specification: check_files is not
\* empty, the destination directory exists in f and so does every listed file
\* under it.
SkipHolds(self, f) ==
    /\ self.check_files # None
    /\ Len(Val(self.check_files)) > 0
    /\ (g_resolved_path \o "/" \o self.pkg_name) \in f
    /\ \A i \in 1..Len(Val(self.check_files)) :
        (g_resolved_path \o "/" \o self.pkg_name \o "/" \o Val(self.check_files)[i]) \in f

(***************************************************************************)
(* C1  Batch always completes: every resolve() returns normally to the     *)
(* loop, whatever optional fields the descriptor has and however the       *)
(* external steps end, so no package keeps a later one from running.       *)
(* Stated as: no resolve() leaves by an exception and the script never     *)
(* ends on one.                                                            *)
(***************************************************************************)
C1_BatchAlwaysCompletes ==
    /\ pc # "raised"
    /\ \A i \in 1..Len(results) : results[i].outcome # "RAISED"

(***************************************************************************)
(* C2  Skip sufficiency: a resolve() that starts with non-empty            *)
(* check_files, an existing destination directory and every check file     *)
(* present under it ends SKIPPED, having called only _can_skip and done no *)
(* download, clone, extraction, directory creation or build, whatever the  *)
(* other fields are.                                                       *)
(***************************************************************************)
C2_SkipSufficiency ==
    (n > 0 /\ pc # "can_skip" /\ SkipHolds(dep, fs0)) =>
        /\ outcome = "SKIPPED"
        /\ steps = << <<"can_skip", TRUE>> >>
        /\ ops = <<>>
        /\ path = "none"
        /\ fs = fs0
        /\ buildEnv = None

\* A run skipped although it names no archive, no download URL and no repository.
C2_Witness ==
    /\ Ended
    /\ outcome = "SKIPPED"
    /\ SkipHolds(dep, fs0)
    /\ dep.pkg_file = None
    /\ dep.http_download_url = None
    /\ dep.git_source_url = None

(***************************************************************************)
(* C3  Skip-check completeness: a resolve() that starts with check_files   *)
(* empty or absent, or without its destination directory, or with at least *)
(* one check file missing, does not end SKIPPED; its skip-check returns    *)
(* False and it enters the clone branch or the archive branch.             *)
(***************************************************************************)
C3_SkipCompleteness ==
    (n > 0 /\ pc # "can_skip" /\ ~SkipHolds(dep, fs0)) =>
        /\ outcome # "SKIPPED"
        /\ steps[1] = <<"can_skip", FALSE>>
        /\ pc # "acquire" => path \in {"git", "archive"}

\* A run that went on to acquisition with one of its two check files present.
C3_Witness ==
    /\ Ended
    /\ path \in {"git", "archive"}
    /\ dep.check_files # None
    /\ Len(Val(dep.check_files)) = 2
    /\ dep.dest_dir \in fs0
    /\ Join(dep.dest_dir, Val(dep.check_files)[1]) \in fs0
    /\ Join(dep.dest_dir, Val(dep.check_files)[2]) \notin fs0

(***************************************************************************)
(* C4  Idempotence across runs: when a resolve() of a descriptor with      *)
(* non-empty check_files ended DONE and left every check file under the    *)
(* destination directory, the next resolve() of an equal descriptor ends   *)
(* SKIPPED and performs no download, clone, extraction or build.           *)
(***************************************************************************)
C4_Idempotence ==
    ( /\ prevSame = "DONE"
      /\ pc # "can_skip"
      /\ dep.check_files # None
      /\ Len(Val(dep.check_files)) > 0
      /\ \A i \in 1..Len(Val(dep.check_files)) :
            Join(dep.dest_dir, Val(dep.check_files)[i]) \in fs0 ) =>
        /\ outcome = "SKIPPED"
        /\ ops = <<>>
        /\ ~Called("download") /\ ~Called("git_clone")
        /\ ~Called("uncompress") /\ ~Called("build")
        /\ fs = fs0

\* The second of two runs of one descriptor: the first built, the second skipped.
C4_Witness ==
    /\ Ended
    /\ prevSame = "DONE"
    /\ outcome = "SKIPPED"
    /\ results[n - 1].outcome = "DONE"

(***************************************************************************)
(* C5  A failed step stops the package: within one resolve() the build is  *)
(* called only after _git_clone or _uncompress returned True; after        *)
(* _download returned False neither _uncompress nor _build is called, and  *)
(* after _uncompress or _git_clone returned False _build is not called.    *)
(***************************************************************************)
C5_FailedStepStops ==
    /\ (pc = "build" \/ Called("build")) =>
            Returned("git_clone", TRUE) \/ Returned("uncompress", TRUE)
    /\ Returned("download", FALSE) =>
            /\ ~Called("uncompress") /\ ~Called("build")
            /\ ~Did("extract") /\ ~Did("command")
            /\ pc \notin {"uncompress", "build"}
    /\ (Returned("uncompress", FALSE) \/ Returned("git_clone", FALSE)) =>
            /\ ~Called("build")
            /\ ~Did("command")
            /\ pc # "build"

\* A run whose archive was opened and found corrupt, ended without a build.
C5_Witness ==
    /\ Ended
    /\ Returned("uncompress", FALSE)
    /\ Did("extract")
    /\ outcome = "ACQUIRE_FAILED"

(***************************************************************************)
(* C6  Sequential in-order processing: the loop resolves one descriptor at *)
(* a time in list order.  While the n-th resolve() runs, each of the n-1   *)
(* earlier ones has ended, and none has ended that the loop has not        *)
(* called; when a build command starts, every earlier package that         *)
(* finished DONE has its directory under the resolved root.                *)
(***************************************************************************)
C6_SequentialInOrder ==
    /\ Len(results) = (IF Running THEN n - 1 ELSE n)
    /\ \A i \in 1..Len(results) : results[i].outcome \in Outcomes
    /\ \A i \in 1..Len(results) : log[2 * i - 1] = <<"Resolving", results[i].pkg_name>>
    /\ (pc = "build" \/ Did("command")) =>
            \A i \in 1..(n - 1) :
                results[i].outcome = "DONE" =>
                    (g_resolved_path \o "/" \o results[i].pkg_name) \in fs0

\* The build of a second package is about to start after another package was built.
C6_Witness ==
    /\ pc = "build"
    /\ n = 2
    /\ results[1].outcome = "DONE"
    /\ results[1].pkg_name # dep.pkg_name

(***************************************************************************)
(* C7  Guaranteed log bracket: the log is a sequence of pairs, a           *)
(* 'Resolving <name>' line followed by one 'Finished resolving <name>'     *)
(* line of the same package; every resolve() that has ended, by SKIPPED,   *)
(* ACQUIRE_FAILED, BUILD_FAILED, DONE or an exception, has its pair.       *)
(***************************************************************************)
C7_LogBracket ==
    /\ Len(log) = (IF Running THEN 2 * n - 1 ELSE 2 * n)
    /\ \A k \in 1..Len(log) :
        IF k % 2 = 1
        THEN log[k][1] = "Resolving"
        ELSE log[k] = <<"Finished", log[k - 1][2]>>
    /\ Running => log[Len(log)] = <<"Resolving", dep.pkg_name>>

\* A resolve() left by an exception after printing its closing line.
C7_Witness ==
    /\ pc = "raised"
    /\ outcome = "RAISED"
    /\ log[Len(log)] = <<"Finished", dep.pkg_name>>
    /\ log[Len(log) - 1] = <<"Resolving", dep.pkg_name>>

(***************************************************************************)
(* C8  Git path selection: when git_source_url is set and the skip-check   *)
(* does not hold, the run takes the git branch: one clone, into            *)
(* source_directory, and no download or extraction even if pkg_file and    *)
(* http_download_url are set; a failed clone ends the package              *)
(* ACQUIRE_FAILED without a build, a successful one goes on to the build.  *)
(***************************************************************************)
C8_GitPathSelection ==
    (n > 0 /\ IsSet(dep.git_source_url) /\ ~SkipHolds(dep, fs0)
           /\ pc \notin {"can_skip", "acquire"}) =>
        /\ path = "git"
        /\ ~Called("download") /\ ~Called("uncompress")
        /\ ~Did("urlretrieve") /\ ~Did("extract")
        /\ pc \notin {"download", "uncompress"}
        /\ pc # "git_clone" =>
            /\ Calls("git_clone") = 1
            /\ Cardinality({i \in 1..Len(ops) : ops[i] = "clone"}) = 1
            /\ Returned("git_clone", FALSE) =>
                    /\ outcome = "ACQUIRE_FAILED"
                    /\ ~Called("build") /\ ~Did("command")
                    /\ pc # "build"
            /\ Returned("git_clone", TRUE) =>
                    /\ (g_build_path \o "/" \o dep.pkg_name) \in fs
                    /\ pc = "build" \/ Called("build")

\* A descriptor with repository, archive name and download URL, cloned and built.
C8_Witness ==
    /\ Ended
    /\ IsSet(dep.git_source_url)
    /\ IsSet(dep.pkg_file)
    /\ IsSet(dep.http_download_url)
    /\ Returned("git_clone", TRUE)
    /\ outcome = "DONE"

\* The decompressor the specification assigns to each suffix.
SuffixTable ==
    { <<".tar.gz", "r:gz">>, <<".tgz", "r:gz">>, <<".tar.xz", "r:xz">>,
      <<".tar.bz2", "r:bz2">>, <<".tbz2", "r:bz2">>, <<".zip", "zip">> }

\* The decompressors the table assigns to the file name.
TableModes(name) == { t[2] : t \in { u \in SuffixTable : EndsWith(name, u[1]) } }

(***************************************************************************)
(* C9  Format dispatch by suffix only: when _uncompress finds the archive, *)
(* it opens it with the decompressor of the suffix of the file name        *)
(* (gzip for .tar.gz/.tgz, xz for .tar.xz, bzip2 for .tar.bz2/.tbz2, zip   *)
(* for .zip), whether or not the extraction then succeeds; for any other   *)
(* name it extracts nothing, the package ends ACQUIRE_FAILED and the build *)
(* command is not run.                                                     *)
(***************************************************************************)
C9_FormatDispatch ==
    (n > 0 /\ Called("uncompress") /\ Val(dep.pkg_path) \in fs) =>
        IF TableModes(Val(dep.pkg_file)) = {}
        THEN /\ decomp = "none"
             /\ ~Did("extract")
             /\ outcome = "ACQUIRE_FAILED"
             /\ ~Called("build") /\ ~Did("command")
             /\ pc # "build"
        ELSE /\ Did("extract")
             /\ TableModes(Val(dep.pkg_file)) = {decomp}

\* A .tbz2 archive was opened as bzip2 and the package built.
C9_Witness ==
    /\ Ended
    /\ EndsWith(Val(dep.pkg_file), ".tbz2")
    /\ decomp = "r:bz2"
    /\ Called("build")

\* The four variables the engine injects.
Injected == {"DST_PATH", "SRC_FILE_PATH", "PKG_NAME", "RESOLVED_PATH"}

(***************************************************************************)
(* C10 Environment injection: the environment of an executed build command *)
(* is the inherited one with DST_PATH, SRC_FILE_PATH, PKG_NAME and         *)
(* RESOLVED_PATH set to the destination directory, the source directory,   *)
(* the package name and the resolved root, also when the inherited         *)
(* environment defines them; every other variable is passed unchanged and  *)
(* no other variable is added.                                             *)
(***************************************************************************)
C10_EnvInjection ==
    (Did("command") <=> buildEnv # None) /\
    (buildEnv # None =>
        LET e == Val(buildEnv)
        IN  /\ DOMAIN e = DOMAIN environ \cup Injected
            /\ e["DST_PATH"] = "/p/depends/resolved/" \o dep.pkg_name
            /\ e["SRC_FILE_PATH"] = "/p/depends/build/" \o dep.pkg_name
            /\ e["PKG_NAME"] = dep.pkg_name
            /\ e["RESOLVED_PATH"] = "/p/depends/resolved"
            /\ \A k \in DOMAIN environ \ Injected : e[k] = environ[k])

\* A build ran under an inherited environment that defined all four names and PATH.
C10_Witness ==
    /\ Ended
    /\ Did("command")
    /\ DOMAIN environ = Injected \cup {"PATH"}
    /\ Val(buildEnv)["DST_PATH"] # environ["DST_PATH"]
    /\ Val(buildEnv)["PATH"] = "inherited"

\* An external operation of this resolve() failed for a reason outside the
\* tree: the download, the extraction of a supported archive, or a clone whose
\* target was absent or empty.
ExternalFault ==
    \/ Returned("download", FALSE)
    \/ Returned("uncompress", FALSE) /\ Did("extract")
    \/ Returned("git_clone", FALSE) /\ ~NonEmptyDir(fs0, g_build_path \o "/" \o dep.pkg_name)

\* A descriptor whose acquisition succeeds on a fresh tree when nothing outside
\* fails: a repository, or a supported archive that is cached or has a URL.
Acquirable(self, f) ==
    \/ IsSet(self.git_source_url)
    \/ /\ IsSet(self.pkg_file)
       /\ TableModes(Val(self.pkg_file)) # {}
       /\ IsSet(self.http_download_url) \/ (g_pkg_path \o "/" \o Val(self.pkg_file)) \in f

ReturnStates == {"SKIPPED", "ACQUIRE_FAILED", "BUILD_FAILED", "DONE"}

(***************************************************************************)
(* C12 Outcome is not signalled to the caller: a resolve() that ends       *)
(* SKIPPED, ACQUIRE_FAILED, BUILD_FAILED or DONE returns nothing (None),   *)
(* and a script whose loop has ended exits with status 0 whichever of its  *)
(* packages failed; what differs between such batches is the log and the   *)
(* file system only.                                                       *)
(***************************************************************************)
C12_OutcomeNotSignalled ==
    /\ \A i \in 1..Len(results) :
            results[i].outcome \in ReturnStates => results[i].ret = None
    /\ pc = "exit" => status = Some(0)
    /\ (status # None /\ \A i \in 1..Len(results) : results[i].outcome \in ReturnStates)
            => status = Some(0)

\* The script has ended after one failed build and one successful build.
C12_Witness ==
    /\ pc = "exit"
    /\ n = 2
    /\ results[1].outcome = "BUILD_FAILED"
    /\ results[2].outcome = "DONE"
    /\ results[1].ret = results[2].ret
    /\ status = Some(0)

(***************************************************************************)
(* Specification for descriptor construction: build commands that are      *)
(* empty or not, every optional field given or omitted.                    *)
(***************************************************************************)
CtorItems ==
    { Item("a", cmd, pf, url, git, None) :
        cmd \in {"", "make install"}, pf \in Opt({"a.tgz"}),
        url \in Opt(Urls), git \in Opt(GitUrls) }

InitCtor == InitWith(Environs, {{}, CachePaths({"a.tgz"})})

CallCtor == CallFrom(CtorItems)

NextCtor ==
    \/ CallCtor
    \/ Exit
    \/ CanSkip
    \/ Acquire
    \/ GitClone
    \/ Download
    \/ Uncompress
    \/ Build
    \/ Finally

SpecCtor == InitCtor /\ [][NextCtor]_vars

(***************************************************************************)
(* C13 Descriptor construction: a descriptor with an empty build_command   *)
(* is rejected at construction, so no lifecycle step ever runs for it: the *)
(* loop is never inside resolve() with such a descriptor, and no method or *)
(* external operation is performed for it.  (A descriptor with only a name *)
(* and a non-empty build_command is constructed.)                          *)
(***************************************************************************)
C13_Construction ==
    (n > 0 /\ dep.build_command = "") =>
        /\ ~Running
        /\ steps = <<>>
        /\ ops = <<>>

\* The archive of a descriptor of the archive branch, as the specification
\* names it: pkg_file under the package cache.
archive_path(self) == g_pkg_path \o "/" \o Val(self.pkg_file)

\* This resolve() entered the archive branch with an archive named.
OnArchivePath == n > 0 /\ path = "archive" /\ dep.pkg_file # None

(***************************************************************************)
(* C14 Archive-already-present bypass: on the archive path, if the archive *)
(* existed when the run began, download is never called in that run and no *)
(* retrieval is made, with or without a URL, and the first acquisition     *)
(* step is the extraction; download is called only when the archive was    *)
(* absent.                                                                 *)
(***************************************************************************)
C14_ArchiveBypass ==
    OnArchivePath =>
        /\ archive_path(dep) \in fs0 =>
                /\ ~Called("download")
                /\ ~Did("urlretrieve")
                /\ Len(steps) >= 2 => steps[2][1] = "uncompress"
        /\ Called("download") => archive_path(dep) \notin fs0
        /\ (archive_path(dep) \notin fs0 /\ Len(steps) >= 2) => steps[2][1] = "download"

\* A run with a URL configured that found the archive and extracted it
\* without downloading.
C14_Witness ==
    /\ Ended /\ OnArchivePath
    /\ IsSet(dep.http_download_url)
    /\ archive_path(dep) \in fs0
    /\ Returned("uncompress", TRUE)
    /\ ~Called("download")

(***************************************************************************)
(* C15 Missing archive with no URL: on the archive path, when the archive  *)
(* is absent and no URL is given, download returns True without doing      *)
(* anything, the extraction then fails, the run ends ACQUIRE_FAILED, the   *)
(* source directory is not created and the build command never runs.       *)
(***************************************************************************)
C15_MissingArchiveNoUrl ==
    (Ended /\ OnArchivePath /\ archive_path(dep) \notin fs0
           /\ ~IsSet(dep.http_download_url)) =>
        /\ steps = <<<<"can_skip", FALSE>>, <<"download", TRUE>>, <<"uncompress", FALSE>>>>
        /\ ops = <<>>
        /\ outcome = "ACQUIRE_FAILED"
        /\ (g_build_path \o "/" \o dep.pkg_name) \in fs
                => (g_build_path \o "/" \o dep.pkg_name) \in fs0
        /\ fs = fs0

C15_Witness ==
    /\ Ended /\ OnArchivePath
    /\ archive_path(dep) \notin fs0
    /\ ~IsSet(dep.http_download_url)
    /\ Returned("download", TRUE)
    /\ outcome = "ACQUIRE_FAILED"

\* The methods of a sequence of steps, in order.
MethodsOf(st) == [i \in 1..Len(st) |-> st[i][1]]

\* The complete orders of steps the specification allows one resolve().
StepOrders ==
    { <<"can_skip", "git_clone", "build">>,
      <<"can_skip", "download", "uncompress", "build">>,
      <<"can_skip", "uncompress", "build">> }

\* s is an initial part of t.
IsPrefix(s, t) == Len(s) <= Len(t) /\ s = SubSeq(t, 1, Len(s))

(***************************************************************************)
(* C16 No retry: within one resolve(), each of skip-check, download,       *)
(* clone, extract and build is called at most once, and the calls are an   *)
(* initial part of skip-check, then clone or (download,) extract, then     *)
(* build; each external operation happens at most once.                    *)
(***************************************************************************)
C16_NoRetry ==
    /\ \A m \in {"can_skip", "git_clone", "download", "uncompress", "build"} : Calls(m) <= 1
    /\ \E t \in StepOrders : IsPrefix(MethodsOf(steps), t)
    /\ \A i, j \in 1..Len(ops) : ops[i] = ops[j] => i = j

\* A run that went through all four steps of the longest order, after a run
\* that failed.
C16_Witness ==
    /\ Ended /\ n = 2
    /\ results[1].outcome \in {"ACQUIRE_FAILED", "BUILD_FAILED"}
    /\ MethodsOf(steps) = <<"can_skip", "download", "uncompress", "build">>

\* The directories of package name, as the specification names them.
source_directory(name) == g_build_path \o "/" \o name
destination_directory(name) == g_resolved_path \o "/" \o name

\* Operation a happens before operation b in this resolve().
Precedes(a, b) ==
    \E i, j \in 1..Len(ops) : i < j /\ ops[i] = a /\ ops[j] = b

(***************************************************************************)
(* C17 Build preconditions: whenever resolve() is about to call _build the *)
(* source directory exists; whenever the build command has run, the        *)
(* destination directory was made before it and exists, the source         *)
(* directory exists, and the command ran with the source directory as its  *)
(* working directory.  _build never fails before running the command.      *)
(***************************************************************************)
C17_BuildPreconditions ==
    /\ pc = "build" => source_directory(dep.pkg_name) \in fs
    /\ Called("build") => Did("command")
    /\ Did("command") =>
            /\ Precedes("makedirs_dest", "command")
            /\ destination_directory(dep.pkg_name) \in fs
            /\ source_directory(dep.pkg_name) \in fs
            /\ buildCwd = Some(source_directory(dep.pkg_name))

\* A build whose destination directory the engine had to make and whose
\* source directory acquisition had to make.
C17_Witness ==
    /\ Ended /\ Did("command")
    /\ destination_directory(dep.pkg_name) \notin fs0
    /\ source_directory(dep.pkg_name) \notin fs0

\* The part of f at or under directory d.
Under(f, d) == { p \in f : p = d \/ StartsWith(p, d \o "/") }

\* Some resolve() of package name has reached the build, this one included.
HasBuilt(name) ==
    \/ n > 0 /\ dep.pkg_name = name /\ Called("build")
    \/ \E i \in 1..Len(results) :
            results[i].pkg_name = name /\ results[i].outcome \in {"BUILD_FAILED", "DONE"}

(***************************************************************************)
(* C18 Frame of non-building exits: a resolve() that ends SKIPPED or       *)
(* ACQUIRE_FAILED leaves the resolved root, the destination directory      *)
(* included, as it found it; the resolved root changes only once _build    *)
(* has been entered, so, starting from an empty resolved root, a package   *)
(* has a destination directory only if some resolve() of it has reached    *)
(* the build.                                                              *)
(***************************************************************************)
C18_NonBuildingFrame ==
    /\ (Ended /\ outcome \in {"SKIPPED", "ACQUIRE_FAILED"}) =>
            Under(fs, g_resolved_path) = Under(fs0, g_resolved_path)
    /\ (n > 0 /\ ~Called("build")) =>
            Under(fs, g_resolved_path) = Under(fs0, g_resolved_path)
    /\ \A name \in PkgNames :
            destination_directory(name) \in fs => HasBuilt(name)

\* A failed acquisition that changed the tree (it made the source
\* directory), but nothing under the resolved root.
C18_Witness ==
    /\ Ended /\ outcome = "ACQUIRE_FAILED"
    /\ fs # fs0
    /\ source_directory(dep.pkg_name) \in fs
    /\ destination_directory(dep.pkg_name) \notin fs

\* Every path a check file of some descriptor can have.
CheckPaths ==
    UNION { { destination_directory(name) \o "/" \o cf[i] : i \in 1..Len(cf) } :
            name \in PkgNames, cf \in CheckLists }

(***************************************************************************)
(* C19 Check files come only from build commands: the set of check files   *)
(* that exist changes within a resolve() only if its build command ran;    *)
(* the skip decision is the skip condition evaluated on the part of the    *)
(* tree under the destination directory as it was when the run began; so,  *)
(* starting from an empty resolved root, a run ends SKIPPED only after an  *)
(* earlier run of that package reached the build, whatever that build      *)
(* returned.                                                               *)
(***************************************************************************)
C19_CheckFilesFromBuilds ==
    /\ (n > 0 /\ ~Did("command")) => fs \cap CheckPaths = fs0 \cap CheckPaths
    /\ fs0 \cap CheckPaths \subseteq fs
    /\ steps # <<>> =>
            steps[1] = <<"can_skip",
                         SkipHolds(dep, Under(fs0, destination_directory(dep.pkg_name)))>>
    /\ (n > 0 /\ outcome = "SKIPPED") =>
            \E i \in 1..(n - 1) :
                /\ results[i].pkg_name = dep.pkg_name
                /\ results[i].outcome \in {"BUILD_FAILED", "DONE"}

\* A run skipped on check files written by an earlier build that failed.
C19_Witness ==
    /\ Ended /\ n = 2
    /\ outcome = "SKIPPED"
    /\ results[1].outcome = "BUILD_FAILED"
    /\ results[1].pkg_name = dep.pkg_name

====
